---- MODULE Spec2Model ----
(***************************************************************************)
(* Model of the classifier-guided conditional trainer                      *)
(* (src/src/classifier_guided_conditional_trainer.py): the epoch / step    *)
(* loops, the unconditional reverse pass, the guided steps of one          *)
(* trajectory, the update checker, the visualization hand-off and the      *)
(* per-epoch checkpoint save.                                              *)
(*                                                                         *)
(* Tensors are abstracted to one scalar each.  A scalar is a record        *)
(* [nan, v]: nan marks a non-finite value (NaN/Inf), v is an integer       *)
(* number of distinguishable units.  Network outputs, losses, noise and    *)
(* gradients depend on data and weights that are not modelled; they are    *)
(* drawn from small sets.                                                  *)
(***************************************************************************)
EXTENDS Integers, Sequences, FiniteSets, TLC

\* ------------------------------------------------------------- bounds
\* number of diffusion timesteps (300 in the script)
T == 3
\* number of epochs (10 in the script)
n_epoch == 2
\* number of (x, y) batches the loader yields per epoch
NBatches == 2
\* largest magnitude a parameter value may drift to, in units
MaxParam == 1

\* ------------------------------------------------------------- constants
batch_size == 10

\* ------------------------------------------------------------- scalars
NaN == [nan |-> TRUE, v |-> 0]
Fin(n) == [nan |-> FALSE, v |-> n]

Add(a, b) == IF a.nan \/ b.nan THEN NaN ELSE Fin(a.v + b.v)
Mul(a, b) == IF a.nan \/ b.nan THEN NaN ELSE Fin(a.v * b.v)

\* torch.clamp(a, lo, hi): NaN stays NaN
clamp(a, lo, hi) ==
    IF a.nan THEN NaN
    ELSE IF a.v < lo THEN Fin(lo)
    ELSE IF a.v > hi THEN Fin(hi)
    ELSE a

\* torch.allclose(a, b): false as soon as one side is non-finite; one unit of
\* the model is larger than the tolerance, so finite values are close iff equal
allclose(a, b) == ~a.nan /\ ~b.nan /\ a.v = b.v

\* seg_model.named_parameters(): the names of the parameter tensors
Names == {"conv.weight", "conv.bias"}
AnyNaN(p) == \E n \in Names : p[n].nan
AllNaN == [n \in Names |-> NaN]

\* values a standard-normal draw, a denoiser output, a gradient may take
Noise == {0, 1}
\* per-parameter change one optimizer step may produce
Delta == {-1, 0, 1}

\* ------------------------------------------------------------- sampler
\* sampler.reverse_iterate(x_T, t_start, model): a new tensor, finite when
\* the input is; the input is not modified
reverse_iterate(x, t_start, r) == IF x.nan THEN NaN ELSE Fin(r)

\* sampler.reverse_skip(x_t, t, model): x0_hat solved from x_t and the
\* predicted noise e; x_t itself is not advanced
reverse_skip(x, t, e) == Add(x, Fin(0 - e))

\* sampler.reverse_sample_typeII(x_t, t, model, 'gaussian') -> (mean, std, noise)
\* std is 0 at t = 0
reverse_sample_typeII(x, t, m, z) ==
    [mean |-> IF x.nan THEN NaN ELSE Fin(m),
     std |-> IF t = 0 THEN Fin(0) ELSE Fin(1),
     epsilon |-> Fin(z)]

\* ------------------------------------------------------------- program order
\* for j in range(0, T)[::-1]
Timesteps_forward == [i \in 1..T |-> i - 1]
Timesteps_short == [i \in 1..(T - 1) |-> T - i]
Timesteps == [i \in 1..T |-> T - i]

\* the statements of one guided step, in program order
StepOrder_gradFirst ==
    << "reverse_skip", "forward", "gradient", "update",
       "reverse_sample", "assign", "check" >>
StepOrder ==
    << "reverse_skip", "forward", "update", "gradient",
       "reverse_sample", "assign", "check" >>

\* name = f"st{step}"
FileName_perEpoch(e, s) == << "st", e, s >>
FileName(e, s) == << "st", s >>
\* name = "pretrained_seg_octa500.pt"
CkptName == "pretrained_seg_octa500.pt"

VARIABLES
    epoch,            \* epoch loop counter
    step,             \* enumerate(train_data) index of the next / current batch
    pc,               \* "loader", "uncond", "step", "handoff", "done", "halted"
    k,                \* position in Timesteps of the current guided step
    op,               \* position in StepOrder of the next statement
    lastShort,        \* the loader's last batch of an epoch has fewer samples
    y_batch,          \* batch dimension of the current y
    x_t,              \* noisy image state
    x_0_uncondition,  \* clamped result of the unconditional pass
    x_0_t,            \* clamped clean-image estimate of the current step
    loss,             \* loss of the last forward pass
    gradient,         \* gradient of -strength * loss w.r.t. x_in
    sample,           \* (mean, std, epsilon) of the current step
    params,           \* segmentation-network parameters, by name
    initial_state,    \* snapshot cloned after loading the checkpoint
    files,            \* visualization files: name -> (epoch, step) of the writer
    ckpt,             \* checkpoint files: name -> saved parameters
    exc,              \* uncaught exception that ended the run, or "none"
    \* ---- observation only (never read by the program)
    trace,            \* sampler calls / final clamp of the current trajectory
    stepOps,          \* statements executed in the current guided step
    optSteps,         \* optimizer.step() calls in the current trajectory
    xWrites,          \* assignments to x_t in the current trajectory after sampling
    preTraj,          \* params when the current trajectory started
    reads,            \* what the current step's statements read
    nDone,            \* trajectories that reached the hand-off
    nWrites,          \* image_saver calls
    saves,            \* one record per torch.save
    lastOpt,          \* params as left by the most recent optimizer.step()
    savedLast,        \* lastOpt at the most recent torch.save
    afterStall        \* an update-checker assertion has failed

vars == << epoch, step, pc, k, op, lastShort, y_batch, x_t, x_0_uncondition,
           x_0_t, loss, gradient, sample, params, initial_state, files, ckpt,
           exc, trace, stepOps, optSteps, xWrites, preTraj, reads,
           nDone, nWrites, saves, lastOpt, savedLast, afterStall >>

NoSample == [mean |-> Fin(0), std |-> Fin(0), epsilon |-> Fin(0)]
NoReads == [uncondX |-> Fin(0), skipX |-> Fin(0), sampleX |-> Fin(0),
            gradParams |-> [n \in Names |-> Fin(0)]]

Init ==
    /\ epoch = 0
    /\ step = 0
    /\ pc = "loader"
    /\ k = 0
    /\ op = 0
    /\ lastShort \in BOOLEAN
    /\ y_batch = batch_size
    /\ x_t = Fin(0)
    /\ x_0_uncondition = Fin(0)
    /\ x_0_t = Fin(0)
    /\ loss = Fin(0)
    /\ gradient = Fin(0)
    /\ sample = NoSample
    /\ params = [n \in Names |-> Fin(0)]
    /\ initial_state = [n \in Names |-> Fin(0)]
    /\ files = << >>
    /\ ckpt = << >>
    /\ exc = "none"
    /\ trace = << >>
    /\ stepOps = << >>
    /\ optSteps = 0
    /\ xWrites = 0
    /\ preTraj = [n \in Names |-> Fin(0)]
    /\ reads = NoReads
    /\ nDone = 0
    /\ nWrites = 0
    /\ saves = << >>
    /\ lastOpt = [n \in Names |-> Fin(0)]
    /\ savedLast = [n \in Names |-> Fin(0)]
    /\ afterStall = FALSE

Abs(i) == IF i < 0 THEN 0 - i ELSE i
Put(f, key, val) == [x \in (DOMAIN f) \cup {key} |-> IF x = key THEN val ELSE f[x]]

\* the timestep j of the current guided step
j == Timesteps[k]

\* ---- bookkeeping shared by the statements of a guided step
InStep(name) == pc = "step" /\ StepOrder[op] = name
LastOfStep == op = Len(StepOrder)
Log(name) == stepOps' = IF op = 1 THEN << name >> ELSE Append(stepOps, name)

\* x_0_t, loss, gradient and (mean, std, epsilon) are rebound in every
\* iteration before they are read: their values are dropped on leaving the body
Temps(x0, l, g, s) ==
    IF LastOfStep
    THEN x_0_t' = Fin(0) /\ loss' = Fin(0) /\ gradient' = Fin(0) /\ sample' = NoSample
    ELSE x_0_t' = x0 /\ loss' = l /\ gradient' = g /\ sample' = s
Reads(r) == reads' = IF LastOfStep THEN NoReads ELSE r

\* control leaves a statement of the loop body: next statement, next timestep,
\* or the code after the loop
Advance ==
    IF op < Len(StepOrder)
    THEN /\ pc' = "step" /\ op' = op + 1 /\ k' = k
    ELSE IF k < Len(Timesteps)
         THEN /\ pc' = "step" /\ op' = 1 /\ k' = k + 1
         ELSE /\ pc' = "handoff" /\ op' = 0 /\ k' = 0

\* ------------------------------------------------------------- actions
\* the reference snapshot is taken again at the start of every trajectory
NextExample_snapshot ==
    /\ pc = "loader" /\ epoch < n_epoch /\ step < NBatches
    /\ \E z \in Noise : x_t' = Fin(z)
    /\ y_batch' = IF lastShort /\ step = NBatches - 1
                  THEN batch_size - 1 ELSE batch_size
    /\ pc' = "uncond"
    /\ trace' = << >>
    /\ stepOps' = << >>
    /\ optSteps' = 0
    /\ xWrites' = 0
    /\ preTraj' = params
    /\ reads' = NoReads
    /\ initial_state' = params
    /\ UNCHANGED << epoch, step, k, op, lastShort, x_0_uncondition, x_0_t, loss,
                    gradient, sample, params, files, ckpt, exc,
                    nDone, nWrites, saves, lastOpt, savedLast, afterStall >>

\* for step, (x, y) in enumerate(train_data): seg_model.train(); x_t = randn; y = ...
NextExample ==
    /\ pc = "loader" /\ epoch < n_epoch /\ step < NBatches
    /\ \E z \in Noise : x_t' = Fin(z)
    /\ y_batch' = IF lastShort /\ step = NBatches - 1
                  THEN batch_size - 1 ELSE batch_size
    /\ pc' = "uncond"
    /\ trace' = << >>
    /\ stepOps' = << >>
    /\ optSteps' = 0
    /\ xWrites' = 0
    /\ preTraj' = params
    /\ reads' = NoReads
    /\ UNCHANGED << epoch, step, k, op, lastShort, x_0_uncondition, x_0_t, loss,
                    gradient, sample, params, initial_state, files, ckpt, exc,
                    nDone, nWrites, saves, lastOpt, savedLast, afterStall >>

\* the result of the pass is bound to x_t itself
UnconditionalPass_inplace ==
    /\ pc = "uncond"
    /\ \E r \in Noise :
         /\ x_0_uncondition' = clamp(reverse_iterate(x_t, T - 1, r), -1, 1)
         /\ x_t' = reverse_iterate(x_t, T - 1, r)
    /\ trace' = Append(trace, << "reverse_iterate", T - 1 >>)
    /\ reads' = [reads EXCEPT !.uncondX = x_t]
    /\ IF Len(Timesteps) > 0
       THEN pc' = "step" /\ k' = 1 /\ op' = 1
       ELSE pc' = "handoff" /\ k' = 0 /\ op' = 0
    /\ UNCHANGED << epoch, step, lastShort, y_batch, x_0_t, loss, gradient,
                    sample, params, initial_state, files, ckpt, exc, stepOps,
                    optSteps, xWrites, preTraj, nDone, nWrites, saves,
                    lastOpt, savedLast, afterStall >>

\* x_0_uncondition = clamp(sampler.reverse_iterate(x_t, T-1, dpm_model), -1, 1)
UnconditionalPass ==
    /\ pc = "uncond"
    /\ \E r \in Noise :
         x_0_uncondition' = clamp(reverse_iterate(x_t, T - 1, r), -1, 1)
    /\ trace' = Append(trace, << "reverse_iterate", T - 1 >>)
    /\ reads' = [reads EXCEPT !.uncondX = x_t]
    /\ IF Len(Timesteps) > 0
       THEN pc' = "step" /\ k' = 1 /\ op' = 1
       ELSE pc' = "handoff" /\ k' = 0 /\ op' = 0
    /\ UNCHANGED << epoch, step, lastShort, y_batch, x_t, x_0_t, loss, gradient,
                    sample, params, initial_state, files, ckpt, exc, stepOps,
                    optSteps, xWrites, preTraj, nDone, nWrites, saves,
                    lastOpt, savedLast, afterStall >>

\* optimizer.zero_grad(); t_tensor = full(j);
\* x_0_t = clamp(sampler.reverse_skip(x_t, t_tensor, dpm_model), 0, 1)
ReverseSkip ==
    /\ InStep("reverse_skip")
    /\ \E e \in Noise :
         Temps(clamp(reverse_skip(x_t, j, e), 0, 1), loss, gradient, sample)
    /\ trace' = Append(trace, << "reverse_skip", j >>)
    /\ Reads([reads EXCEPT !.skipX = x_t])
    /\ Log("reverse_skip") /\ Advance
    /\ UNCHANGED << epoch, step, lastShort, y_batch, x_t, x_0_uncondition,
                    params, initial_state, files, ckpt, exc, optSteps, xWrites,
                    preTraj, nDone, nWrites, saves, lastOpt, savedLast,
                    afterStall >>

\* values the combined loss may take for the current input and parameters
LossValues(x, p) == IF x.nan \/ AnyNaN(p) THEN {NaN} ELSE {Fin(1), NaN}

\* pred = seg_model(x_0_t); pred_y = argmax; loss = CE_loss(pred, y) + DSC_loss(pred_y, y)
SegForward ==
    /\ InStep("forward")
    /\ y_batch = batch_size
    /\ \E l \in LossValues(x_0_t, params) : Temps(x_0_t, l, gradient, sample)
    /\ Reads(reads)
    /\ Log("forward") /\ Advance
    /\ UNCHANGED << epoch, step, lastShort, y_batch, x_t, x_0_uncondition,
                    params, initial_state, files, ckpt, exc, trace, optSteps,
                    xWrites, preTraj, nDone, nWrites, saves, lastOpt, savedLast,
                    afterStall >>

\* CE_loss(pred, y) with pred of batch_size rows and y of another batch size
\* raises; nothing catches it
SegForwardShapeError ==
    /\ InStep("forward")
    /\ y_batch # batch_size
    /\ exc' = "ValueError"
    /\ pc' = "halted"
    /\ UNCHANGED << epoch, step, k, op, lastShort, y_batch, x_t, x_0_uncondition,
                    x_0_t, loss, gradient, sample, params, initial_state, files,
                    ckpt, trace, stepOps, optSteps, xWrites, preTraj, reads,
                    nDone, nWrites, saves, lastOpt, savedLast, afterStall >>

\* loss.backward(); optimizer.step()
ParameterUpdate ==
    /\ InStep("update")
    /\ IF loss.nan
       THEN params' = AllNaN
       ELSE \E d \in [Names -> Delta] :
              /\ \A n \in Names : Abs(params[n].v + d[n]) <= MaxParam
              /\ params' = [n \in Names |-> Add(params[n], Fin(d[n]))]
    /\ lastOpt' = params'
    /\ optSteps' = optSteps + 1
    /\ Temps(x_0_t, loss, gradient, sample)
    /\ Reads(reads)
    /\ Log("update") /\ Advance
    /\ UNCHANGED << epoch, step, lastShort, y_batch, x_t, x_0_uncondition,
                    initial_state, files, ckpt, exc, trace, xWrites, preTraj,
                    nDone, nWrites, saves, savedLast, afterStall >>

\* x_in = x_0_t.clone().detach().requires_grad_(True); forward and loss again;
\* gradient = autograd.grad(-strength * loss, x_in)[0]
GuidanceGradient ==
    /\ InStep("gradient")
    /\ \E l \in LossValues(x_0_t, params), g \in Noise :
         Temps(x_0_t, l, IF l.nan THEN NaN ELSE Fin(g), sample)
    /\ Reads([reads EXCEPT !.gradParams = params])
    /\ Log("gradient") /\ Advance
    /\ UNCHANGED << epoch, step, lastShort, y_batch, x_t, x_0_uncondition,
                    params, initial_state, files, ckpt, exc, trace, optSteps,
                    xWrites, preTraj, nDone, nWrites, saves, lastOpt, savedLast,
                    afterStall >>

\* mean, std, epsilon = sampler.reverse_sample_typeII(x_t, t_tensor, dpm_model, 'gaussian')
ReverseSampleTypeII ==
    /\ InStep("reverse_sample")
    /\ \E m \in Noise, z \in Noise :
         Temps(x_0_t, loss, gradient, reverse_sample_typeII(x_t, j, m, z))
    /\ trace' = Append(trace, << "reverse_sample_typeII", j >>)
    /\ Reads([reads EXCEPT !.sampleX = x_t])
    /\ Log("reverse_sample") /\ Advance
    /\ UNCHANGED << epoch, step, lastShort, y_batch, x_t, x_0_uncondition,
                    params, initial_state, files, ckpt, exc, optSteps, xWrites,
                    preTraj, nDone, nWrites, saves, lastOpt, savedLast,
                    afterStall >>

\* mean_shift = mean + gradient.cpu(); x_t = mean_shift + std * epsilon
UpdateXt ==
    /\ InStep("assign")
    /\ x_t' = Add(Add(sample.mean, gradient), Mul(sample.std, sample.epsilon))
    /\ xWrites' = xWrites + 1
    /\ Temps(x_0_t, loss, gradient, sample)
    /\ Reads(reads)
    /\ Log("assign") /\ Advance
    /\ UNCHANGED << epoch, step, lastShort, y_batch, x_0_uncondition, params,
                    initial_state, files, ckpt, exc, trace, optSteps, preTraj,
                    nDone, nWrites, saves, lastOpt, savedLast, afterStall >>

\* for name, param in seg_model.named_parameters():
\*     assert not torch.allclose(param, initial_state[name])
Stalled == \E n \in Names : allclose(params[n], initial_state[n])

UpdateCheckerPass ==
    /\ InStep("check")
    /\ ~Stalled
    /\ Temps(x_0_t, loss, gradient, sample)
    /\ Reads(reads)
    /\ Log("check") /\ Advance
    /\ UNCHANGED << epoch, step, lastShort, y_batch, x_t, x_0_uncondition,
                    params, initial_state, files, ckpt, exc, trace, optSteps,
                    xWrites, preTraj, nDone, nWrites, saves, lastOpt, savedLast,
                    afterStall >>

\* the failed assertion is swallowed and the loop goes on
UpdateCheckerFail_ignored ==
    /\ InStep("check")
    /\ Stalled
    /\ afterStall' = TRUE
    /\ Temps(x_0_t, loss, gradient, sample)
    /\ Reads(reads)
    /\ Log("check") /\ Advance
    /\ UNCHANGED << epoch, step, lastShort, y_batch, x_t, x_0_uncondition,
                    params, initial_state, files, ckpt, exc, trace, optSteps,
                    xWrites, preTraj, nDone, nWrites, saves, lastOpt, savedLast >>

\* the AssertionError is not caught anywhere: the script ends
UpdateCheckerFail ==
    /\ InStep("check")
    /\ Stalled
    /\ exc' = "AssertionError"
    /\ pc' = "halted"
    /\ afterStall' = TRUE
    /\ UNCHANGED << epoch, step, k, op, lastShort, y_batch, x_t, x_0_uncondition,
                    x_0_t, loss, gradient, sample, params, initial_state, files,
                    ckpt, trace, stepOps, optSteps, xWrites, preTraj, reads,
                    nDone, nWrites, saves, lastOpt, savedLast >>

\* what one torch.save is recorded as
SaveRecord == [epoch |-> epoch, done |-> nDone, at |-> pc, step |-> step]

\* the checkpoint is written inside the step loop as well
HandOff_save ==
    /\ pc = "handoff"
    /\ files' = Put(files, FileName(epoch, step), << epoch, step >>)
    /\ trace' = Append(trace, << "final_clamp", 0 >>)
    /\ nDone' = nDone + 1
    /\ nWrites' = nWrites + 1
    /\ step' = step + 1
    /\ pc' = "loader"
    /\ ckpt' = Put(ckpt, CkptName, params)
    /\ saves' = Append(saves, SaveRecord)
    /\ savedLast' = lastOpt
    /\ UNCHANGED << epoch, k, op, lastShort, y_batch, x_t, x_0_uncondition, x_0_t,
                    loss, gradient, sample, params, initial_state, exc,
                    stepOps, optSteps, xWrites, preTraj, reads, lastOpt,
                    afterStall >>

\* x_0_condition = clamp(x_t, -1, 1); ...; name = f"st{step}";
\* utils.image_saver(im_plot, save_path, name)
HandOff ==
    /\ pc = "handoff"
    /\ files' = Put(files, FileName(epoch, step), << epoch, step >>)
    /\ trace' = Append(trace, << "final_clamp", 0 >>)
    /\ nDone' = nDone + 1
    /\ nWrites' = nWrites + 1
    /\ step' = step + 1
    /\ pc' = "loader"
    /\ UNCHANGED << epoch, k, op, lastShort, y_batch, x_t, x_0_uncondition, x_0_t,
                    loss, gradient, sample, params, initial_state, ckpt, exc,
                    stepOps, optSteps, xWrites, preTraj, reads, saves, lastOpt,
                    savedLast, afterStall >>

\* the step loop is exhausted: name = "pretrained_seg_octa500.pt"; torch.save(...)
SaveCheckpoint ==
    /\ pc = "loader" /\ epoch < n_epoch /\ step = NBatches
    /\ ckpt' = Put(ckpt, CkptName, params)
    /\ saves' = Append(saves, SaveRecord)
    /\ savedLast' = lastOpt
    /\ epoch' = epoch + 1
    /\ step' = 0
    /\ pc' = IF epoch + 1 < n_epoch THEN "loader" ELSE "done"
    /\ UNCHANGED << k, op, lastShort, y_batch, x_t, x_0_uncondition, x_0_t, loss,
                    gradient, sample, params, initial_state, files, exc, trace,
                    stepOps, optSteps, xWrites, preTraj, reads, nDone, nWrites,
                    lastOpt, afterStall >>

Next ==
    \/ NextExample
    \/ UnconditionalPass
    \/ ReverseSkip
    \/ SegForward
    \/ SegForwardShapeError
    \/ ParameterUpdate
    \/ GuidanceGradient
    \/ ReverseSampleTypeII
    \/ UpdateXt
    \/ UpdateCheckerPass
    \/ UpdateCheckerFail
    \/ HandOff
    \/ SaveCheckpoint

Spec == Init /\ [][Next]_vars

\* ------------------------------------------------------------- properties
Min(a, b) == IF a < b THEN a ELSE b
LoadTime == [n \in Names |-> Fin(0)]

\* the current guided step has executed statement `name`
Did(name) ==
    /\ pc = "step" /\ op > 1
    /\ \E i \in 1..Len(stepOps) : stepOps[i] = name

\* a guided step has just ended with a passed update check
AfterGuidedStep == (pc = "step" /\ op = 1 /\ k > 1) \/ pc = "handoff"

\* a trajectory has been handed off and the next one has not started
AfterHandOff == pc \in {"loader", "done"} /\ nDone > 0

\* sampler calls and final clamp of one whole trajectory
ExpectedTrace ==
    [n \in 1..(2 * T + 2) |->
        IF n = 1 THEN << "reverse_iterate", T - 1 >>
        ELSE IF n = 2 * T + 2 THEN << "final_clamp", 0 >>
        ELSE IF n % 2 = 0 THEN << "reverse_skip", T - (n \div 2) >>
        ELSE << "reverse_sample_typeII", T - ((n - 1) \div 2) >>]

\* C1: every trajectory is one unconditional pass from T-1, then guided steps
\* with t = T-1, T-2, ..., 0 in that order, t always inside [0, T), and the
\* final clamp and hand-off only after the step with t = 0; what a trajectory
\* has done so far is always a prefix of that sequence, and a handed-off
\* trajectory has done all of it.
C1_TrajectoryOrder ==
    /\ Len(trace) <= 2 * T + 2
    /\ \A n \in 1..Len(trace) : trace[n] = ExpectedTrace[n]
    /\ (pc = "step" => (k \in 1..T /\ j \in 0..(T - 1) /\ j = T - k))
    /\ (pc = "handoff" => Len(trace) = 2 * T + 1)
    /\ (AfterHandOff => Len(trace) = 2 * T + 2)

C1_Witness ==
    /\ pc = "loader" /\ nDone = 1
    /\ Len(trace) = 2 * T + 2
    /\ trace[2 * T] = << "reverse_skip", 0 >>

\* C2 as stated: after any guided step every parameter differs from the value
\* it had before the first update of the same trajectory.
C2_DiffersFromPreTrajectory ==
    AfterGuidedStep =>
        \A n \in Names : params[n].nan \/ params[n].v # preTraj[n].v

\* C2 amended: after any guided step whose check passed, every parameter
\* differs from the value it had when the checkpoint was loaded, and the
\* snapshot the check compares against is that load-time value in every
\* trajectory of every epoch.
C2_DiffersFromLoadTime ==
    /\ initial_state = LoadTime
    /\ AfterGuidedStep =>
         \A n \in Names : params[n].nan \/ params[n].v # initial_state[n].v

C2_Witness ==
    /\ AfterGuidedStep
    /\ nDone >= 1
    /\ ~AnyNaN(params)
    /\ params = preTraj
    /\ preTraj # initial_state

\* C3 as stated: a non-finite loss or gradient is applied neither to the
\* segmentation-network parameters nor to x_t.
C3_NonFiniteNotApplied == ~AnyNaN(params) /\ ~x_t.nan

\* C4: a trajectory performs one optimizer step in each guided step and none
\* elsewhere: none before the first guided step, one more after each update
\* statement, T when the trajectory is handed off.
C4_UpdatesPerTrajectory ==
    /\ (pc = "uncond" => optSteps = 0)
    /\ (pc = "step" => optSteps = (k - 1) + (IF Did("update") THEN 1 ELSE 0))
    /\ (pc = "handoff" => optSteps = T)
    /\ (AfterHandOff => optSteps = T)

C4_Witness == pc = "handoff" /\ optSteps = T /\ epoch = 1

\* C5 as stated: a label batch whose shape disagrees with x_t is fatal only for
\* the current example; the run goes on with the next example.
C5_ShapeMismatchSkips == (y_batch # batch_size) => pc # "halted"

\* C6: once the update check has failed nothing more happens: the failure
\* raises at the check, and no guided step, trajectory, visualization write or
\* checkpoint save follows it.
C6_Step ==
    /\ ((InStep("check") /\ Stalled) => (pc' = "halted" /\ exc' = "AssertionError"))
    /\ (afterStall =>
          /\ pc = "halted" /\ exc = "AssertionError"
          /\ UNCHANGED << pc, k, op, epoch, step, params, x_t, files, ckpt,
                          nDone, nWrites, saves, optSteps, trace >>)
C6_StalledStops == [][C6_Step]_vars

C6_Witness ==
    /\ afterStall /\ pc = "halted" /\ exc = "AssertionError"
    /\ nDone >= 1

\* C7 as stated: distinct trajectories produce distinct files, so after N
\* completed trajectories N visualization files exist.
C7_DistinctFiles == Cardinality(DOMAIN files) = nDone

\* C7 amended: every completed trajectory makes one image_saver call, after its
\* final clamp, to the file named after its loader step index alone; a
\* trajectory overwrites the file of the trajectory with the same step index
\* of the epoch before, so the files that exist are one per step index.
C7_OneFilePerStepIndex ==
    /\ nWrites = nDone
    /\ Cardinality(DOMAIN files) = Min(nDone, NBatches)
    /\ \A f \in DOMAIN files :
         /\ f = << "st", files[f][2] >>
         /\ files[f][1] = (IF pc # "done" /\ files[f][2] < step
                           THEN epoch ELSE epoch - 1)
    /\ (pc = "loader" /\ step > 0 => trace[Len(trace)] = << "final_clamp", 0 >>)

C7_Witness ==
    /\ nDone = NBatches + 1
    /\ Cardinality(DOMAIN files) = NBatches
    /\ files[<< "st", 0 >>] = << 1, 0 >>

\* C8: the parameters are saved once per epoch, after the last trajectory of
\* the epoch was handed off, never inside a trajectory, always under the one
\* fixed name, and what is saved is what the last optimizer step left.
C8_SaveOncePerEpoch ==
    /\ Len(saves) = epoch
    /\ \A i \in 1..Len(saves) :
         /\ saves[i].epoch = i - 1
         /\ saves[i].at = "loader"
         /\ saves[i].step = NBatches
         /\ saves[i].done = i * NBatches
    /\ DOMAIN ckpt \subseteq {CkptName}
    /\ (epoch > 0 <=> CkptName \in DOMAIN ckpt)
    /\ (epoch > 0 => ckpt[CkptName] = savedLast)
    /\ (epoch > 0 /\ step = 0 /\ pc \in {"loader", "uncond", "done"}
          => ckpt[CkptName] = lastOpt /\ ckpt[CkptName] = params)

C8_Witness ==
    /\ pc = "done" /\ epoch = n_epoch
    /\ Len(saves) = n_epoch
    /\ ckpt[CkptName] = params
    /\ params # LoadTime

\* C9: the statements of a guided step run in the order reverse_skip, forward
\* and loss, update, detached forward and gradient, reverse_sample_typeII,
\* assignment; the gradient pass reads the parameters this step's update
\* left, and reverse_sample_typeII reads the x_t that reverse_skip read.
ExpectedOps ==
    << "reverse_skip", "forward", "update", "gradient",
       "reverse_sample", "assign", "check" >>

C9_StepOrder ==
    /\ (pc = "step" /\ op > 1 => stepOps = SubSeq(ExpectedOps, 1, op - 1))
    /\ (AfterGuidedStep => stepOps = ExpectedOps)
    /\ (Did("gradient") =>
          /\ Did("update")
          /\ reads.gradParams = lastOpt
          /\ reads.gradParams = params)
    /\ (Did("reverse_sample") => Did("reverse_skip") /\ reads.sampleX = reads.skipX)
    /\ (Did("reverse_sample") /\ ~Did("assign") => reads.sampleX = x_t)

C9_Witness ==
    /\ Did("gradient") /\ ~Did("reverse_sample")
    /\ k = 1 /\ nDone = 0
    /\ ~AnyNaN(params)
    /\ \A n \in Names : reads.gradParams[n] # preTraj[n]

\* C10: x_t changes only in the final assignment of a guided step (and when a
\* new trajectory samples x_T); it is assigned once per guided step, and the
\* first guided step reads the x_T the unconditional pass was given.
C10_State ==
    /\ (pc = "uncond" => xWrites = 0)
    /\ (pc = "step" => xWrites = (k - 1) + (IF Did("assign") THEN 1 ELSE 0))
    /\ (pc = "handoff" => xWrites = T)
    /\ (k = 1 /\ Did("reverse_skip") => reads.skipX = reads.uncondX)
    /\ (k = 1 /\ Did("reverse_skip") /\ ~Did("assign") => x_t = reads.uncondX)
C10_Step == (x_t' # x_t) => (InStep("assign") \/ pc = "loader")
C10_XtSingleWriter == [] C10_State /\ [][C10_Step]_vars

C10_Witness ==
    /\ pc = "handoff" /\ xWrites = T
    /\ ~x_t.nan /\ x_t.v > 1

====
